---- MODULE Spec2Model ----
(***************************************************************************)
(* Model of setuptools/config/_apply_pyprojecttoml.py: the translation of  *)
(* a parsed pyproject.toml document into a Distribution and its metadata.  *)
(*                                                                         *)
(* Python values are wrapped so that values of different Python types can  *)
(* sit in one collection: a str is [str |-> "..."], a dict is              *)
(* [dict |-> <<  <<key, value>>, ... >>] (insertion ordered, as Python's   *)
(* dict), a list is [list |-> <<...>>], a tuple is [tuple |-> <<...>>],    *)
(* None is [none |-> TRUE].  Dictionary keys and attribute names are bare  *)
(* strings.                                                                *)
(***************************************************************************)
EXTENDS Naturals, Sequences, FiniteSets, TLC

(***************************************************************************)
(* Python values                                                           *)
(***************************************************************************)
PyNone == [none |-> TRUE]
Str(s) == [str |-> s]
Dict(items) == [dict |-> items]
List(items) == [list |-> items]
Tuple(items) == [tuple |-> items]
SpecifierSet(s) == [specifier |-> s]

IsStr(v) == DOMAIN v = {"str"}
IsDict(v) == DOMAIN v = {"dict"}
IsNone(v) == DOMAIN v = {"none"}

\* The empty mapping, EMPTY = MappingProxyType({}).
EMPTY == Dict(<< >>)

(***************************************************************************)
(* str operations, computed character by character                         *)
(***************************************************************************)
Chars(s) == [i \in 1..Len(s) |-> SubSeq(s, i, i)]

RECURSIVE Implode(_)
Implode(cs) == IF cs = << >> THEN "" ELSE Head(cs) \o Implode(Tail(cs))

UPPER == <<"A", "B", "C", "D", "E", "F", "G", "H", "I", "J", "K", "L", "M",
           "N", "O", "P", "Q", "R", "S", "T", "U", "V", "W", "X", "Y", "Z">>
LOWER == <<"a", "b", "c", "d", "e", "f", "g", "h", "i", "j", "k", "l", "m",
           "n", "o", "p", "q", "r", "s", "t", "u", "v", "w", "x", "y", "z">>

\* str.lower(), one character
lower(c) ==
    IF \E k \in 1..26 : UPPER[k] = c
    THEN LOWER[CHOOSE k \in 1..26 : UPPER[k] = c]
    ELSE c

\* c.lower().replace("-", "_"), one character
NormalisedChar(c) == IF lower(c) = "-" THEN "_" ELSE lower(c)

\* key.lower().replace("-", "_")
json_compatible_key(key) ==
    Implode([k \in 1..Len(key) |-> NormalisedChar(SubSeq(key, k, k))])

\* s.replace("_", "")
DropUnderscores(s) == Implode(SelectSeq(Chars(s), LAMBDA c : c # "_"))

RECURSIVE LStrip(_, _)
LStrip(cs, drop) ==
    IF cs # << >> /\ Head(cs) \in drop THEN LStrip(Tail(cs), drop) ELSE cs

RECURSIVE RStrip(_, _)
RStrip(cs, drop) ==
    IF cs # << >> /\ cs[Len(cs)] \in drop
    THEN RStrip(SubSeq(cs, 1, Len(cs) - 1), drop)
    ELSE cs

\* json_compatible_key(name).strip("_=")
_normalise_cmd_option_key(name) ==
    Implode(RStrip(LStrip(Chars(json_compatible_key(name)), {"_", "="}), {"_", "="}))

\* sep.join(parts)
RECURSIVE Join(_, _)
Join(sep, parts) ==
    IF parts = << >> THEN ""
    ELSE IF Len(parts) = 1 THEN parts[1]
    ELSE parts[1] \o sep \o Join(sep, Tail(parts))

(***************************************************************************)
(* dict operations on the ordered item sequence                            *)
(***************************************************************************)
Keys(d) == [i \in 1..Len(d.dict) |-> d.dict[i][1]]
KeySet(d) == {d.dict[i][1] : i \in 1..Len(d.dict)}
Has(d, k) == k \in KeySet(d)
Index(d, k) == CHOOSE i \in 1..Len(d.dict) : d.dict[i][1] = k
\* d[k]
Item(d, k) == d.dict[Index(d, k)][2]
\* d.get(k, default)
Get(d, k, default) == IF Has(d, k) THEN Item(d, k) ELSE default
\* d[k] = v: an existing key keeps its position, a new key goes last
Put(d, k, v) ==
    IF Has(d, k)
    THEN Dict([d.dict EXCEPT ![Index(d, k)] = <<k, v>>])
    ELSE Dict(Append(d.dict, <<k, v>>))
\* the dict left by d.pop(k, default)
Without(d, k) == Dict(SelectSeq(d.dict, LAMBDA kv : kv[1] # k))
\* d.setdefault(k, v)
SetDefault(d, k, v) == IF Has(d, k) THEN d ELSE Put(d, k, v)
\* bool(v) of a str, dict, list, tuple or None
Truthy(v) ==
    CASE IsNone(v) -> FALSE
      [] IsStr(v) -> v.str # ""
      [] IsDict(v) -> v.dict # << >>
      [] DOMAIN v = {"list"} -> v.list # << >>
      [] DOMAIN v = {"tuple"} -> v.tuple # << >>
      [] OTHER -> TRUE

(***************************************************************************)
(* Module constants of _apply_pyprojecttoml.py                             *)
(***************************************************************************)
DEFAULT_LICENSE_FILES == Tuple(<<Str("LICEN[CS]E*"), Str("COPYING*"), Str("NOTICE*"), Str("AUTHORS*")>>)

SETUPTOOLS_PATCHES ==
    {"long_description_content_type", "project_urls", "provides_extras",
     "license_file", "license_files"}

TOOL_TABLE_RENAMES == Dict(<< <<"script_files", Str("scripts")>> >>)

\* The keys of PYPROJECT_CORRESPONDENCE whose value is a translator function,
\* and the ones whose value is an attribute name.
TranslatorKeys == {"readme", "license", "authors", "maintainers", "urls", "requires_python"}
PYPROJECT_CORRESPONDENCE ==
    Dict(<< <<"dependencies", Str("install_requires")>>,
            <<"optional_dependencies", Str("extras_require")>> >>)

(***************************************************************************)
(* The Distribution and its metadata.  metadata and attrs map attribute    *)
(* names to values: hasattr(obj, name) is name \in DOMAIN.                 *)
(***************************************************************************)
\* Attributes a new DistributionMetadata has, all None.
MetadataAttrs ==
    {"name", "version", "author", "author_email", "maintainer", "maintainer_email",
     "url", "download_url", "license", "description", "long_description",
     "keywords", "classifiers", "provides", "obsoletes",
     "long_description_content_type", "project_urls", "license_file", "license_files"}

\* The set_<field> methods of DistributionMetadata.
MetadataSetters == {"set_provides", "set_obsoletes", "set_requires"}

FreshDist ==
    [metadata |-> [a \in MetadataAttrs |-> PyNone],
     attrs |-> [a \in {"command_options"} |-> EMPTY]]

\* setattr(obj, field, value)
SetAttr(obj, field, value) == (field :> value) @@ obj

\* set_provides / set_obsoletes / set_requires: the list is stored in the
\* attribute of the same name.
CallSetter(metadata, field, value) == SetAttr(metadata, field, value)

\* A faulty variant of _set_config: a metadata attribute that already has a value keeps it.
_set_config_keep_first(dist, field, value) ==
    IF field \in DOMAIN dist.metadata \/ field \in SETUPTOOLS_PATCHES
    THEN (IF field \in DOMAIN dist.metadata /\ ~IsNone(dist.metadata[field]) THEN dist
          ELSE [dist EXCEPT !.metadata = SetAttr(dist.metadata, field, value)])
    ELSE [dist EXCEPT !.attrs = SetAttr(dist.attrs, field, value)]

_set_config(dist, field, value) ==
    IF ("set_" \o field) \in MetadataSetters
    THEN [dist EXCEPT !.metadata = CallSetter(dist.metadata, field, value)]
    ELSE IF field \in DOMAIN dist.metadata \/ field \in SETUPTOOLS_PATCHES
    THEN [dist EXCEPT !.metadata = SetAttr(dist.metadata, field, value)]
    ELSE [dist EXCEPT !.attrs = SetAttr(dist.attrs, field, value)]

\* What a translator leaves: the distribution, and the exception it raised
\* ("" when it returned).
Returned(dist) == [dist |-> dist, exc |-> ""]
Raised(dist, e) == [dist |-> dist, exc |-> e]

(***************************************************************************)
(* expand.read_files: the text of the files that exist under root_dir,     *)
(* joined by newlines.                                                     *)
(***************************************************************************)
FileNames == {"README.rst", "LICENSE"}
FileText(path) == IF path = "README.rst" THEN "Hello" ELSE "MIT terms"

\* filepaths: a str or a list of str
read_files(filepaths) ==
    LET paths == IF IsStr(filepaths) THEN <<filepaths>> ELSE filepaths.list
        found == SelectSeq(paths, LAMBDA p : p.str \in FileNames)
    IN  Join("\n", [i \in 1..Len(found) |-> FileText(found[i].str)])

(***************************************************************************)
(* Translators                                                             *)
(***************************************************************************)
\* A faulty variant of _long_description: a plain string is taken as the text itself.
_long_description_inline(dist, val) ==
    IF IsStr(val)
    THEN Returned(_set_config(_set_config(dist, "long_description", val),
                              "long_description_content_type", Str("text/x-rst")))
    ELSE IF ~Has(val, "content-type") THEN Raised(dist, "KeyError")
    ELSE Returned(_set_config(_set_config(dist, "long_description",
                                          IF Truthy(Get(val, "text", PyNone))
                                          THEN Item(val, "text")
                                          ELSE Str(read_files(Get(val, "file", List(<< >>))))),
                              "long_description_content_type", Item(val, "content-type")))

_long_description(dist, val) ==
    IF IsStr(val)
    THEN LET text == read_files(val)
         IN  Returned(_set_config(_set_config(dist, "long_description", Str(text)),
                                  "long_description_content_type", Str("text/x-rst")))
    ELSE LET got == Get(val, "text", PyNone)
             \* val.get("text") or expand.read_files(val.get("file", []), root_dir)
             text == IF Truthy(got) THEN got
                     ELSE Str(read_files(Get(val, "file", List(<< >>))))
         IN  IF ~Has(val, "content-type")
             THEN Raised(dist, "KeyError")
             ELSE Returned(_set_config(_set_config(dist, "long_description", text),
                                       "long_description_content_type",
                                       Item(val, "content-type")))

_license(dist, val) ==
    IF IsStr(val) THEN Returned(_set_config(dist, "license", val))
    ELSE IF Has(val, "file")
    THEN Returned(_set_config(dist, "license_files", List(<<Item(val, "file")>>)))
    ELSE IF Has(val, "text") THEN Returned(_set_config(dist, "license", Item(val, "text")))
    ELSE Raised(dist, "KeyError")

\* email._header_value_parser.SPECIALS
SPECIALS == {"(", ")", "<", ">", "@", ",", ":", ";", ".", "\\", "\"", "[", "]"}

\* email._header_value_parser.quote_string
quote_string(s) ==
    "\"" \o Implode([k \in 1..Len(s) |->
                        IF SubSeq(s, k, k) \in {"\\", "\""}
                        THEN "\\" \o SubSeq(s, k, k) ELSE SubSeq(s, k, k)])
         \o "\""

\* str(Address(display_name=name, addr_spec=email)) for an addr_spec of the
\* form local@domain, which Address parses and prints back unchanged.
AddressStr(name, email) ==
    LET disp == IF \E k \in 1..Len(name) : SubSeq(name, k, k) \in SPECIALS
                THEN quote_string(name) ELSE name
    IN  IF disp # "" THEN disp \o " <" \o email \o ">" ELSE email

\* The loop of _people over val[k..]: the two lists it builds.
RECURSIVE PeopleLoop(_, _, _, _)
PeopleLoop(val, k, field, email_field) ==
    IF k > Len(val) THEN [field |-> field, email_field |-> email_field]
    ELSE LET person == val[k]
         IN  IF ~Has(person, "name")
             THEN PeopleLoop(val, k + 1, field, Append(email_field, Item(person, "email").str))
             ELSE IF ~Has(person, "email")
             THEN PeopleLoop(val, k + 1, Append(field, Item(person, "name").str), email_field)
             ELSE PeopleLoop(val, k + 1, field,
                             Append(email_field,
                                    AddressStr(Item(person, "name").str,
                                               Item(person, "email").str)))

\* A faulty variant of _people: a person with both name and email is also listed in the
\* plain-name field.
_people_name_twice(dist, val, kind) ==
    LET r == PeopleLoop(val.list, 1, << >>, << >>)
        named == SelectSeq(val.list, LAMBDA p : Has(p, "name"))
        field == [k \in 1..Len(named) |-> Item(named[k], "name").str]
        d1 == IF field # << >>
              THEN _set_config(dist, kind, Str(Join(", ", field))) ELSE dist
        d2 == IF r.email_field # << >>
              THEN _set_config(d1, kind \o "_email", Str(Join(", ", r.email_field)))
              ELSE d1
    IN  Returned(d2)

\* A faulty variant of _people: both fields are assigned even when their list is empty.
_people_always_set(dist, val, kind) ==
    LET r == PeopleLoop(val.list, 1, << >>, << >>)
    IN  Returned(_set_config(_set_config(dist, kind, Str(Join(", ", r.field))),
                             kind \o "_email", Str(Join(", ", r.email_field))))

_people(dist, val, kind) ==
    LET r == PeopleLoop(val.list, 1, << >>, << >>)
        d1 == IF r.field # << >>
              THEN _set_config(dist, kind, Str(Join(", ", r.field))) ELSE dist
        d2 == IF r.email_field # << >>
              THEN _set_config(d1, kind \o "_email", Str(Join(", ", r.email_field)))
              ELSE d1
    IN  Returned(d2)

\* special = {"downloadurl": "download_url", "homepage": "url"}
UrlSpecial == Dict(<< <<"downloadurl", Str("download_url")>>, <<"homepage", Str("url")>> >>)

RECURSIVE UrlLoop(_, _, _)
UrlLoop(dist, items, k) ==
    IF k > Len(items) THEN dist
    ELSE LET key == items[k][1]
             norm_key == DropUnderscores(json_compatible_key(key))
         IN  UrlLoop(_set_config(dist, Get(UrlSpecial, norm_key, Str(key)).str, items[k][2]),
                     items, k + 1)

_project_urls(dist, val) ==
    Returned(_set_config(UrlLoop(dist, val.dict, 1), "project_urls", val))

\* Whether packaging's SpecifierSet accepts the string: every comma-separated
\* clause starts with a comparison operator.
ValidSpecifier(s) == s = "" \/ SubSeq(s, 1, 1) \in {"<", ">", "=", "!", "~"}

_python_requires(dist, val) ==
    IF ValidSpecifier(val.str)
    THEN Returned(_set_config(dist, "python_requires", SpecifierSet(val.str)))
    ELSE Raised(dist, "InvalidSpecifier")

(***************************************************************************)
(* Preprocessing of the copied project table                               *)
(***************************************************************************)
\* renaming = {"scripts": "console_scripts", "gui_scripts": "gui_scripts"}
EntryPointRenaming ==
    Dict(<< <<"scripts", Str("console_scripts")>>, <<"gui_scripts", Str("gui_scripts")>> >>)

\* The loop of _unify_entry_points over the items listed before it starts.
RECURSIVE UnifyLoop(_, _, _, _)
UnifyLoop(items, k, project, entry_points) ==
    IF k > Len(items) THEN [project |-> project, entry_points |-> entry_points]
    ELSE LET key == items[k][1]
             value == items[k][2]
             norm_key == json_compatible_key(key)
         IN  IF Has(EntryPointRenaming, norm_key) /\ Truthy(value)
             THEN UnifyLoop(items, k + 1, Without(project, key),
                            Put(entry_points, Item(EntryPointRenaming, norm_key).str, value))
             ELSE UnifyLoop(items, k + 1, project, entry_points)

\* [f"{k} = {v}" for k, v in group.items()]
EntryPointLines(group) ==
    List([j \in 1..Len(group.dict) |->
             Str(group.dict[j][1] \o " = " \o group.dict[j][2].str)])

\* The project table after _unify_entry_points, the entry-points dict it wrote
\* to, and the key of the caller's project table that holds that same dict
\* object ("" when the dict is a new one).
_unify_entry_points(project_table) ==
    LET shared == IF Has(project_table, "entry-points") THEN "entry-points"
                  ELSE IF Has(project_table, "entry_points") THEN "entry_points"
                  ELSE ""
        entry_points0 == IF shared = "" THEN EMPTY ELSE Item(project_table, shared)
        popped == Without(Without(project_table, "entry_points"), "entry-points")
        r == UnifyLoop(popped.dict, 1, popped, entry_points0)
        eps == r.entry_points
        unified == Dict([j \in 1..Len(eps.dict) |->
                            <<eps.dict[j][1], EntryPointLines(eps.dict[j][2])>>])
    IN  [project |-> IF Truthy(eps) THEN Put(r.project, "entry-points", unified)
                     ELSE r.project,
         entry_points |-> eps,
         shared |-> shared]

\* {json_compatible_key(k) for k in project_table.get("dynamic", [])}
DynamicNames(project_table) ==
    LET dyn == Get(project_table, "dynamic", List(<< >>)).list
    IN  {json_compatible_key(dyn[j].str) : j \in 1..Len(dyn)}

RECURSIVE PromoteLoop(_, _, _, _)
PromoteLoop(keys, k, project, dynamic_cfg) ==
    IF k > Len(keys) THEN project
    ELSE PromoteLoop(keys, k + 1,
                     Put(project, json_compatible_key(keys[k]), Item(dynamic_cfg, keys[k])),
                     dynamic_cfg)

\* A faulty variant of _dynamic_license: the keys to promote are taken before setdefault
\* adds license_files.
_dynamic_license_keys_first(project_table, tool_table, order) ==
    LET dynamic == DynamicNames(project_table)
        dynamic_cfg == SetDefault(Get(tool_table, "dynamic", EMPTY),
                                  "license_files", DEFAULT_LICENSE_FILES)
        keys == IF "license" \in dynamic
                THEN KeySet(Get(tool_table, "dynamic", EMPTY)) \cap {"license", "license_files"}
                ELSE {}
    IN  [project |-> PromoteLoop(SelectSeq(order, LAMBDA n : n \in keys), 1,
                                 project_table, dynamic_cfg),
         dynamic_cfg |-> dynamic_cfg]

\* The project table after _dynamic_license, and tool_table's "dynamic" dict as
\* setdefault leaves it.  order is the iteration order of the set `keys`.
_dynamic_license(project_table, tool_table, order) ==
    LET dynamic == DynamicNames(project_table)
        dynamic_cfg == SetDefault(Get(tool_table, "dynamic", EMPTY),
                                  "license_files", DEFAULT_LICENSE_FILES)
        keys == IF "license" \in dynamic
                THEN KeySet(dynamic_cfg) \cap {"license", "license_files"}
                ELSE {}
    IN  [project |-> PromoteLoop(SelectSeq(order, LAMBDA n : n \in keys), 1,
                                 project_table, dynamic_cfg),
         dynamic_cfg |-> dynamic_cfg]

(***************************************************************************)
(* Command options                                                         *)
(***************************************************************************)
\* _normalise_cmd_options(desc): desc is a list of option descriptors, each
\* modelled by its first element, the long option name.
_normalise_cmd_options(desc) == {_normalise_cmd_option_key(desc[j]) : j \in 1..Len(desc)}

\* Distribution.global_options, by long option name.
GlobalOptions == <<"verbose", "quiet", "dry-run", "help", "no-user-cfg">>

\* The 'distutils.commands' entry points the environment registers: the
\* command name, whether ep.load() raises, and the user_options of the class
\* it loads.
CommandEntryPoints ==
    << [name |-> "build", fails |-> FALSE, user_options |-> <<"build-lib=", "force">>],
       [name |-> "broken", fails |-> TRUE, user_options |-> <<"level=">>],
       [name |-> "sdist", fails |-> FALSE, user_options |-> <<"formats=">>] >>

\* _load_ep(ep): the (name, class) pair, or None with one warning.
_load_ep(ep) ==
    IF ep.fails
    THEN [loaded |-> FALSE,
          warn |-> <<"ImportError while trying to load entry-point " \o ep.name \o ": ">>]
    ELSE [loaded |-> TRUE, warn |-> << >>]

\* The warnings of loading every registered entry point, in order.
RECURSIVE LoadWarnings(_, _)
LoadWarnings(eps, k) ==
    IF k > Len(eps) THEN << >> ELSE _load_ep(eps[k]).warn \o LoadWarnings(eps, k + 1)

\* The (cmd, user_options) pairs of chain(entry_points, cmdclass.items()).
CommandClasses(cmdclass) ==
    LET loaded == SelectSeq(CommandEntryPoints, LAMBDA ep : _load_ep(ep).loaded)
    IN  [j \in 1..Len(loaded) |-> <<loaded[j].name, loaded[j].user_options>>]
        \o [j \in 1..Len(cmdclass.dict) |->
               <<cmdclass.dict[j][1], cmdclass.dict[j][2].user_options>>]

\* A faulty variant of ValidLoop: a later class for a command name replaces
\* the options of the earlier ones.
RECURSIVE ValidLoopReplace(_, _, _)
ValidLoopReplace(classes, k, valid_options) ==
    IF k > Len(classes) THEN valid_options
    ELSE ValidLoopReplace(classes, k + 1,
                          (classes[k][1] :> _normalise_cmd_options(classes[k][2]))
                              @@ valid_options)

\* The loop of _valid_command_options over the (cmd, cmd_class) pairs.
RECURSIVE ValidLoop(_, _, _)
ValidLoop(classes, k, valid_options) ==
    IF k > Len(classes) THEN valid_options
    ELSE LET cmd == classes[k][1]
             opts == IF cmd \in DOMAIN valid_options THEN valid_options[cmd] ELSE {}
         IN  ValidLoop(classes, k + 1,
                       (cmd :> (opts \cup _normalise_cmd_options(classes[k][2])))
                           @@ valid_options)

_valid_command_options(cmdclass) ==
    ValidLoop(CommandClasses(cmdclass), 1,
              [c \in {"global"} |-> _normalise_cmd_options(GlobalOptions)])

\* A faulty variant of OptionLoop: an option that is not known is not recorded.
RECURSIVE OptionLoopKnownOnly(_, _, _, _, _, _)
OptionLoopKnownOnly(cmd, items, k, valid, cmd_opts, log) ==
    IF k > Len(items) THEN [cmd_opts |-> cmd_opts, log |-> log]
    ELSE LET key == json_compatible_key(items[k][1])
         IN  IF key \in valid
             THEN OptionLoopKnownOnly(cmd, items, k + 1, valid,
                                      Put(cmd_opts, cmd, Put(Item(cmd_opts, cmd), key, items[k][2])),
                                      log)
             ELSE OptionLoopKnownOnly(cmd, items, k + 1, valid, cmd_opts,
                                      Append(log, "Command option " \o cmd \o "." \o key
                                                      \o " is not defined"))

\* The inner loop of _copy_command_options over one command's options.
RECURSIVE OptionLoop(_, _, _, _, _, _)
OptionLoop(cmd, items, k, valid, cmd_opts, log) ==
    IF k > Len(items) THEN [cmd_opts |-> cmd_opts, log |-> log]
    ELSE LET key == json_compatible_key(items[k][1])
             opts == Put(cmd_opts, cmd, Put(Item(cmd_opts, cmd), key, items[k][2]))
         IN  OptionLoop(cmd, items, k + 1, valid, opts,
                        IF key \notin valid
                        THEN Append(log, "Command option " \o cmd \o "." \o key
                                             \o " is not defined")
                        ELSE log)

RECURSIVE CommandLoop(_, _, _, _, _)
CommandLoop(items, k, valid_options, cmd_opts, log) ==
    IF k > Len(items) THEN [cmd_opts |-> cmd_opts, log |-> log]
    ELSE LET cmd == json_compatible_key(items[k][1])
             valid == IF cmd \in DOMAIN valid_options THEN valid_options[cmd] ELSE {}
             r == OptionLoop(cmd, items[k][2].dict, 1, valid,
                             SetDefault(cmd_opts, cmd, EMPTY), log)
         IN  CommandLoop(items, k + 1, valid_options, r.cmd_opts, r.log)

\* dist.command_options and the log after _copy_command_options(pyproject, dist)
_copy_command_options(pyproject, dist, log) ==
    LET tool_table == Get(pyproject, "tool", EMPTY)
        cmdclass == Get(Get(tool_table, "setuptools", EMPTY), "cmdclass", EMPTY)
        valid_options == _valid_command_options(cmdclass)
        r == CommandLoop(Get(tool_table, "distutils", EMPTY).dict, 1, valid_options,
                         dist.attrs["command_options"],
                         log \o LoadWarnings(CommandEntryPoints, 1))
    IN  [dist |-> [dist EXCEPT !.attrs["command_options"] = r.cmd_opts], log |-> r.log]

(***************************************************************************)
(* Bounds and the documents apply is run on                                *)
(***************************************************************************)
MaxPeople == 2
MaxUrls == 2

\* All sequences over S of length at most n
SeqsUpTo(S, n) == UNION {[1..m -> S] : m \in 0..n}

\* A dict from a set of candidate items, each present or absent: every
\* sub-sequence of items.
RECURSIVE SubSeqs(_)
SubSeqs(items) ==
    IF items = << >> THEN {<< >>}
    ELSE LET rest == SubSeqs(Tail(items))
         IN  rest \cup {<<Head(items)>> \o r : r \in rest}

DistinctKeys(items) == \A a, b \in 1..Len(items) : items[a][1] = items[b][1] => a = b

Persons ==
    {Dict(<< <<"email", Str(e)>> >>) : e \in {"a@x.com", "b@y.org"}}
    \cup {Dict(<< <<"name", Str(n)>> >>) : n \in {"A", "J. Doe"}}
    \cup {Dict(<< <<"name", Str(n)>>, <<"email", Str(e)>> >>) :
            n \in {"A", "J. Doe", ""}, e \in {"a@x.com"}}

UrlLabels == {"Homepage", "Home-Page", "url", "Download-URL", "Docs"}
UrlMappings ==
    {Dict(items) : items \in
        {u \in SeqsUpTo(UrlLabels \X {Str("https://a"), Str("https://b")}, MaxUrls) :
            DistinctKeys(u)}}

ReadmeValues ==
    {Str("README.rst"), Str("missing.md"), Str("")}
    \cup {Dict(items) : items \in
            SubSeqs(<< <<"file", Str("README.rst")>>, <<"text", Str("Inline")>>,
                       <<"content-type", Str("text/markdown")>> >>)}

LicenseValues ==
    {Str("MIT"), Dict(<< <<"file", Str("LICENSE")>> >>), Dict(<< <<"text", Str("BSD")>> >>),
     EMPTY}

BaseItems == << <<"name", Str("pkg")>>, <<"version", Str("1.0")>> >>

Config(project_items, tool_items) ==
    Dict(<< <<"project", Dict(project_items)>>, <<"tool", Dict(tool_items)>> >>)

EmptySetuptools == << <<"setuptools", EMPTY>> >>

PeopleConfigs ==
    {Config(BaseItems \o << <<kind, List(val)>> >>, EmptySetuptools) :
        kind \in {"authors", "maintainers"}, val \in SeqsUpTo(Persons, MaxPeople)}

UrlConfigs ==
    {Config(BaseItems \o << <<"urls", val>> >>, EmptySetuptools) : val \in UrlMappings}

ReadmeConfigs ==
    {Config(BaseItems \o << <<"readme", val>> >> \o rest, EmptySetuptools) :
        val \in ReadmeValues,
        rest \in {<< >>, << <<"requires-python", Str(">=3.8")>> >>,
                  << <<"requires-python", Str("3.8")>> >>}}

\* tool.setuptools tables with a dynamic section
DynamicSections ==
    {Dict(items) : items \in
        SubSeqs(<< <<"version", Dict(<< <<"attr", Str("pkg.v")>> >>)>>,
                   <<"license_files", List(<<Str("COPYING")>>)>> >>)
        \cup {<< <<"license", l>> >> \o t :
                 l \in {Dict(<< <<"file", Str("LICENSE")>> >>),
                        Dict(<< <<"text", Str("BSD")>> >>)},
                 t \in {<< >>, << <<"license_files", List(<<Str("COPYING")>>)>> >>}}}

SetuptoolsTables ==
    {EMPTY}
    \cup {Dict(<< <<"dynamic", d>> >> \o rest) :
            d \in DynamicSections,
            rest \in {<< >>, << <<"license-files", List(<<Str("LICENSE")>>)>> >>}}
    \cup {Dict(items) : items \in
            SubSeqs(<< <<"license-files", List(<<Str("NOTICE")>>)>>,
                       <<"script-files", List(<<Str("bin/run")>>)>>,
                       <<"provides", List(<<Str("pkg")>>)>> >>)}

EntryPointItems ==
    SubSeqs(<< <<"scripts", Dict(<< <<"run", Str("pkg:main")>> >>)>>,
               <<"entry-points",
                 Dict(<< <<"console_scripts", Dict(<< <<"old", Str("pkg:old")>> >>)>>,
                         <<"pkg.plugins", Dict(<< <<"p", Str("pkg:plug")>> >>)>> >>)>>,
               <<"gui-scripts", Dict(<< <<"win", Str("pkg:gui")>> >>)>>,
               <<"entry_points", Dict(<< <<"other", Dict(<< <<"o", Str("pkg:o")>> >>)>> >>)>> >>)
    \cup {<< <<"scripts", EMPTY>> >>,
          << <<"scripts", EMPTY>>, <<"gui-scripts", Dict(<< <<"win", Str("pkg:gui")>> >>)>> >>}

DynamicLists ==
    {<< >>, << <<"dynamic", List(<<Str("license")>>)>> >>,
     << <<"dynamic", List(<<Str("version"), Str("License")>>)>> >>,
     << <<"dynamic", List(<<Str("version")>>)>> >>}

\* A field is either given in the project table or listed in dynamic.
LicenseConfigs ==
    {Config(BaseItems \o ld[1] \o ld[2], << <<"setuptools", t>> >>) :
        ld \in {p \in ({<< >>} \cup {<< <<"license", l>> >> : l \in LicenseValues})
                        \X DynamicLists :
                   p[1] = << >> \/ "license" \notin DynamicNames(Dict(p[2]))},
        t \in SetuptoolsTables}

EntryPointConfigs ==
    {Config(BaseItems \o eps \o dyn, << <<"setuptools", t>> >>) :
        eps \in EntryPointItems, dyn \in DynamicLists,
        t \in {EMPTY,
               Dict(<< <<"dynamic", Dict(<< <<"license", Dict(<< <<"file", Str("LICENSE")>> >>)>>,
                                            <<"license_files", List(<<Str("COPYING")>>)>> >>)>> >>)}}

\* A command class, by the long names of its user_options
CommandClass(user_options) == [user_options |-> user_options]

DistutilsTables ==
    {Dict(cmds) : cmds \in
        SubSeqs(<< <<"build", Dict(<< <<"bogus_flag", Str("1")>>, <<"build-lib", Str("out")>> >>)>>,
                   <<"Build", Dict(<< <<"Bogus-Flag", Str("2")>>, <<"force", Str("1")>> >>)>>,
                   <<"broken", Dict(<< <<"level", Str("3")>> >>)>>,
                   <<"global", Dict(<< <<"dry-run", Str("1")>>, <<"force", Str("1")>> >>)>>,
                   <<"bdist-wheel", Dict(<< <<"universal", Str("1")>>, <<"formats=", Str("zip")>> >>)>>,
                   <<"sdist", Dict(<< <<"formats", Str("gztar")>>, <<"formats=", Str("zip")>>,
                                      <<"owner", Str("root")>> >>)>> >>)}

CommandConfigs ==
    {Config(BaseItems, st \o << <<"distutils", d>> >>) :
        d \in DistutilsTables,
        st \in {<< >>, EmptySetuptools,
                << <<"setuptools",
                     Dict(<< <<"cmdclass",
                             Dict(<< <<"sdist", CommandClass(<<"owner=">>)>> >>)>> >>)>> >>}}

PrecedenceConfigs ==
    {Config(BaseItems \o p, << <<"setuptools", Dict(t)>> >>) :
        p \in SubSeqs(<< <<"description", Str("first")>>,
                         <<"license", Dict(<< <<"file", Str("LICENSE")>> >>)>>,
                         <<"Description", Str("second")>>,
                         <<"dependencies", List(<<Str("attrs")>>)>> >>),
        t \in SubSeqs(<< <<"description", Str("from tool")>>,
                         <<"License-Files", List(<<Str("NOTICE")>>)>>,
                         <<"install-requires", List(<<Str("six")>>)>> >>)}

Configs ==
    PeopleConfigs \cup UrlConfigs \cup ReadmeConfigs \cup LicenseConfigs
    \cup EntryPointConfigs \cup CommandConfigs \cup PrecedenceConfigs

(***************************************************************************)
(* apply(dist, config, root_dir), run twice on the same config object,     *)
(* each time with a new Distribution                                       *)
(***************************************************************************)
root_dir == "/project"
WorkingDirectories == {"/home/user", "/tmp/build"}

\* The orders in which a set holding "license" and "license_files" can be
\* iterated; the order is fixed by the interpreter's string hashing.
SetOrders == {<<"license", "license_files">>, <<"license_files", "license">>}

VARIABLES
    given,              \* the document as the caller built it
    config,             \* the caller's document object, as it is now
    dist,               \* the Distribution given to the running call
    project_table,      \* apply's copy of the project table
    pc,                 \* where the running call is
    i,                  \* position of the running loop in its table
    cwd,                \* the process working directory
    cwd0,               \* the working directory when apply was called
    current_directory,  \* apply's local of that name
    log,                \* the warnings logged by the running call
    exc,                \* the exception being raised by the call ("" if none)
    run,                \* 1: first call, 2: second call
    first,              \* what the first call left
    order,              \* iteration order of string sets in this process
    data,               \* validate: the document it was called with
    extra_validations,  \* validate: the EXTRA_VALIDATIONS sequence
    acc,                \* validate: the accumulator of reduce
    next_validation,    \* validate: position of reduce in EXTRA_VALIDATIONS
    calls,              \* validate: the calls made so far, <<function, argument>>
    validate_pc,        \* validate: where the call is
    returned            \* validate: the value returned (None until it returns)

apply_vars == <<given, config, dist, project_table, pc, i, cwd, cwd0, current_directory, log,
                exc, run, first, order>>

validate_vars == <<data, extra_validations, acc, next_validation, calls, validate_pc, returned>>

vars == <<apply_vars, validate_vars>>

\* config.get("tool", {}).get("setuptools")
ToolTable(cfg) == Get(Get(cfg, "tool", EMPTY), "setuptools", PyNone)

\* cfg after an assignment through a reference to cfg["project"][key]
WithProjectItem(cfg, key, value) == Put(cfg, "project", Put(Item(cfg, "project"), key, value))

\* cfg after an assignment through a reference to cfg["tool"]["setuptools"]["dynamic"]
WithToolDynamic(cfg, value) ==
    Put(cfg, "tool", Put(Item(cfg, "tool"), "setuptools", Put(ToolTable(cfg), "dynamic", value)))

NoCall == [dist |-> FreshDist, exc |-> "", log |-> << >>, pc |-> "none"]

Init ==
    /\ given \in Configs
    /\ config = given
    /\ dist = FreshDist
    /\ project_table = EMPTY
    /\ pc = "start"
    /\ i = 0
    /\ cwd0 \in WorkingDirectories
    /\ cwd = cwd0
    /\ current_directory = ""
    /\ log = << >>
    /\ exc = ""
    /\ run = 1
    /\ first = NoCall
    /\ order \in SetOrders
    /\ data = EMPTY
    /\ extra_validations = << >>
    /\ acc = PyNone
    /\ next_validation = 0
    /\ calls = << >>
    /\ validate_pc = "none"
    /\ returned = PyNone

\* lines 31-33: the copy of the project table and _unify_entry_points on it.
\* The entry-points dict it writes to is the caller's own nested dict.
UnifyEntryPoints ==
    /\ UNCHANGED validate_vars
    /\ pc = "start"
    /\ LET r == _unify_entry_points(Item(config, "project"))
       IN  /\ project_table' = r.project
           /\ config' = IF r.shared = "" THEN config
                        ELSE WithProjectItem(config, r.shared, r.entry_points)
    /\ pc' = "dynamic_license"
    /\ UNCHANGED <<given, dist, i, cwd, cwd0, current_directory, log, exc, run, first, order>>

\* line 34.  tool_table.get raises AttributeError when there is no
\* tool.setuptools table; setdefault writes to the caller's dynamic dict.
DynamicLicense ==
    /\ UNCHANGED validate_vars
    /\ pc = "dynamic_license"
    /\ IF IsNone(ToolTable(config))
       THEN /\ exc' = "AttributeError"
            /\ pc' = "raised"
            /\ UNCHANGED <<project_table, config, i>>
       ELSE LET r == _dynamic_license(project_table, ToolTable(config), order)
            IN  /\ project_table' = r.project
                /\ config' = IF Has(ToolTable(config), "dynamic")
                             THEN WithToolDynamic(config, r.dynamic_cfg) ELSE config
                /\ pc' = "project"
                /\ i' = 1
                /\ exc' = exc
    /\ UNCHANGED <<given, dist, cwd, cwd0, current_directory, log, run, first, order>>

Field == project_table.dict[i][1]
Value == project_table.dict[i][2]
InProjectLoop == pc = "project" /\ i \in 1..Len(project_table.dict)

\* The rest of one iteration of the loop of lines 35-41 after the translator
\* (or _set_config) left r.
Dispatched(r) ==
    /\ dist' = r.dist
    /\ exc' = r.exc
    /\ IF r.exc = "" THEN pc' = pc /\ i' = i + 1 ELSE pc' = "raised" /\ i' = i
    /\ UNCHANGED <<given, config, project_table, cwd, cwd0, current_directory, log, run, first, order>>

ProjectReadme ==
    /\ UNCHANGED validate_vars
    /\ InProjectLoop /\ json_compatible_key(Field) = "readme"
    /\ Dispatched(_long_description(dist, Value))

ProjectLicense ==
    /\ UNCHANGED validate_vars
    /\ InProjectLoop /\ json_compatible_key(Field) = "license"
    /\ Dispatched(_license(dist, Value))

ProjectPeople ==
    /\ UNCHANGED validate_vars
    /\ InProjectLoop /\ json_compatible_key(Field) \in {"authors", "maintainers"}
    /\ Dispatched(_people(dist, Value,
                          IF json_compatible_key(Field) = "authors" THEN "author"
                          ELSE "maintainer"))

ProjectUrls ==
    /\ UNCHANGED validate_vars
    /\ InProjectLoop /\ json_compatible_key(Field) = "urls"
    /\ Dispatched(_project_urls(dist, Value))

ProjectPythonRequires ==
    /\ UNCHANGED validate_vars
    /\ InProjectLoop /\ json_compatible_key(Field) = "requires_python"
    /\ Dispatched(_python_requires(dist, Value))

\* corresp is a string: the mapped attribute name, or norm_key itself
ProjectAttribute ==
    /\ UNCHANGED validate_vars
    /\ InProjectLoop /\ json_compatible_key(Field) \notin TranslatorKeys
    /\ LET norm_key == json_compatible_key(Field)
           corresp == Get(PYPROJECT_CORRESPONDENCE, norm_key, Str(norm_key)).str
       IN  Dispatched(Returned(_set_config(dist, corresp, Value)))

ProjectDone ==
    /\ UNCHANGED validate_vars
    /\ pc = "project" /\ i > Len(project_table.dict)
    /\ pc' = "tool"
    /\ i' = 1
    /\ UNCHANGED <<given, config, dist, project_table, cwd, cwd0, current_directory, log, exc,
                   run, first, order>>

\* One iteration of the loop of lines 43-46
ToolField ==
    /\ UNCHANGED validate_vars
    /\ pc = "tool" /\ i \in 1..Len(ToolTable(config).dict)
    /\ LET field == ToolTable(config).dict[i][1]
           value == ToolTable(config).dict[i][2]
           norm_key == json_compatible_key(field)
           renamed == Get(TOOL_TABLE_RENAMES, norm_key, Str(norm_key)).str
       IN  dist' = _set_config(dist, renamed, value)
    /\ i' = i + 1
    /\ UNCHANGED <<given, config, project_table, pc, cwd, cwd0, current_directory, log, exc,
                   run, first, order>>

ToolDone ==
    /\ UNCHANGED validate_vars
    /\ pc = "tool" /\ i > Len(ToolTable(config).dict)
    /\ pc' = "command_options"
    /\ UNCHANGED <<given, config, dist, project_table, i, cwd, cwd0, current_directory, log, exc,
                   run, first, order>>

\* line 48
CopyCommandOptions ==
    /\ UNCHANGED validate_vars
    /\ pc = "command_options"
    /\ LET r == _copy_command_options(config, dist, log)
       IN  dist' = r.dist /\ log' = r.log
    /\ pc' = "chdir"
    /\ UNCHANGED <<given, config, project_table, i, cwd, cwd0, current_directory, exc, run, first,
                   order>>

\* lines 50-51
ChangeDirectory ==
    /\ UNCHANGED validate_vars
    /\ pc = "chdir"
    /\ current_directory' = cwd
    /\ cwd' = root_dir
    /\ pc' = "finalize_requires"
    /\ UNCHANGED <<given, config, dist, project_table, i, cwd0, log, exc, run, first, order>>

\* line 53: the hook returns or raises
FinalizeRequires ==
    /\ UNCHANGED validate_vars
    /\ pc = "finalize_requires"
    /\ \E raises \in BOOLEAN :
          IF raises THEN exc' = "DistutilsSetupError" /\ pc' = "finally"
          ELSE exc' = exc /\ pc' = "finalize_license_files"
    /\ UNCHANGED <<given, config, dist, project_table, i, cwd, cwd0, current_directory, log, run,
                   first, order>>

\* line 54: the hook returns or raises
FinalizeLicenseFiles ==
    /\ UNCHANGED validate_vars
    /\ pc = "finalize_license_files"
    /\ \E raises \in BOOLEAN :
          exc' = IF raises THEN "DistutilsFileError" ELSE exc
    /\ pc' = "finally"
    /\ UNCHANGED <<given, config, dist, project_table, i, cwd, cwd0, current_directory, log, run,
                   first, order>>

\* A faulty variant of Finally: the directory is restored only when no hook raised.
FinallyOnReturnOnly ==
    /\ UNCHANGED validate_vars
    /\ pc = "finally"
    /\ cwd' = IF exc = "" THEN current_directory ELSE cwd
    /\ pc' = IF exc = "" THEN "done" ELSE "raised"
    /\ UNCHANGED <<given, config, dist, project_table, i, cwd0, current_directory, log, exc,
                   run, first, order>>

\* lines 55-58: the finally clause, then the return or the re-raise
Finally ==
    /\ UNCHANGED validate_vars
    /\ pc = "finally"
    /\ cwd' = current_directory
    /\ pc' = IF exc = "" THEN "done" ELSE "raised"
    /\ UNCHANGED <<given, config, dist, project_table, i, cwd0, current_directory, log, exc, run,
                   first, order>>

\* The caller applies the same config object to a new Distribution, after a
\* first call that returned.
ApplyAgain ==
    /\ UNCHANGED validate_vars
    /\ pc = "done" /\ run = 1
    /\ first' = [dist |-> dist, exc |-> exc, log |-> log, pc |-> pc]
    /\ dist' = FreshDist
    /\ project_table' = EMPTY
    /\ pc' = "start"
    /\ i' = 0
    /\ cwd0' = cwd
    /\ current_directory' = ""
    /\ log' = << >>
    /\ exc' = ""
    /\ run' = 2
    /\ UNCHANGED <<given, config, cwd, order>>

Next ==
    \/ UnifyEntryPoints
    \/ DynamicLicense
    \/ ProjectReadme
    \/ ProjectLicense
    \/ ProjectPeople
    \/ ProjectUrls
    \/ ProjectPythonRequires
    \/ ProjectAttribute
    \/ ProjectDone
    \/ ToolField
    \/ ToolDone
    \/ CopyCommandOptions
    \/ ChangeDirectory
    \/ FinalizeRequires
    \/ FinalizeLicenseFiles
    \/ Finally
    \/ ApplyAgain

Spec == Init /\ [][Next]_vars

(***************************************************************************)
(* validate(data) of _validate_pyproject: the schema validation, then      *)
(* reduce(lambda acc, fn: fn(acc), EXTRA_VALIDATIONS, data), then True     *)
(***************************************************************************)
MaxExtra == 3

PyTrue == [bool |-> TRUE]

\* The documents validate is called with
Documents ==
    {EMPTY,
     Dict(<< <<"project", Dict(BaseItems)>> >>),
     Config(BaseItems \o << <<"dynamic", List(<<Str("version")>>)>> >>, EmptySetuptools)}

\* The whole-document checks EXTRA_VALIDATIONS can hold, by what a call
\* does: return its argument, return a changed document, or raise.
ValidationFunctions == {"accept", "add_x", "add_y", "reject"}

\* fn(acc): whether the call raises, and the document it returns
CallValidation(fn, document) ==
    [raises |-> fn = "reject",
     value |-> IF fn = "add_x" THEN Put(document, "x", Str("1"))
               ELSE IF fn = "add_y" THEN Put(document, "y", Str("1"))
               ELSE document]

ValidateInit ==
    /\ data \in Documents
    /\ extra_validations \in SeqsUpTo(ValidationFunctions, MaxExtra)
    /\ acc = PyNone
    /\ next_validation = 0
    /\ calls = << >>
    /\ validate_pc = "schema"
    /\ returned = PyNone
    /\ given = Config(BaseItems, EmptySetuptools)
    /\ config = given
    /\ dist = FreshDist
    /\ project_table = EMPTY
    /\ pc = "none"
    /\ i = 0
    /\ cwd0 = "/home/user"
    /\ cwd = cwd0
    /\ current_directory = ""
    /\ log = << >>
    /\ exc = ""
    /\ run = 1
    /\ first = NoCall
    /\ order = <<"license", "license_files">>

\* line 29: _validate(data, custom_formats=FORMAT_FUNCTIONS) returns; its
\* value is dropped and reduce starts from data
SchemaReturns ==
    /\ validate_pc = "schema"
    /\ calls' = Append(calls, <<"_validate", data>>)
    /\ acc' = data
    /\ next_validation' = 1
    /\ validate_pc' = "extra"
    /\ UNCHANGED <<data, extra_validations, returned, exc>>
    /\ UNCHANGED <<given, config, dist, project_table, pc, i, cwd, cwd0, current_directory, log,
                   run, first, order>>

\* line 29: _validate raises
SchemaRaises ==
    /\ validate_pc = "schema"
    /\ calls' = Append(calls, <<"_validate", data>>)
    /\ exc' = "JsonSchemaValueException"
    /\ validate_pc' = "raised"
    /\ UNCHANGED <<data, extra_validations, acc, next_validation, returned>>
    /\ UNCHANGED <<given, config, dist, project_table, pc, i, cwd, cwd0, current_directory, log,
                   run, first, order>>

\* A faulty variant of ExtraValidation: every check is called with data.
ExtraValidationOnData ==
    /\ validate_pc = "extra"
    /\ next_validation <= Len(extra_validations)
    /\ LET fn == extra_validations[next_validation]
           r == CallValidation(fn, data)
       IN  /\ calls' = Append(calls, <<fn, data>>)
           /\ IF r.raises
              THEN /\ exc' = "ValueError"
                   /\ validate_pc' = "raised"
                   /\ UNCHANGED <<acc, next_validation>>
              ELSE /\ acc' = r.value
                   /\ next_validation' = next_validation + 1
                   /\ UNCHANGED <<exc, validate_pc>>
    /\ UNCHANGED <<data, extra_validations, returned>>
    /\ UNCHANGED <<given, config, dist, project_table, pc, i, cwd, cwd0, current_directory, log,
                   run, first, order>>

\* line 30: one step of reduce, acc = fn(acc)
ExtraValidation ==
    /\ validate_pc = "extra"
    /\ next_validation <= Len(extra_validations)
    /\ LET fn == extra_validations[next_validation]
           r == CallValidation(fn, acc)
       IN  /\ calls' = Append(calls, <<fn, acc>>)
           /\ IF r.raises
              THEN /\ exc' = "ValueError"
                   /\ validate_pc' = "raised"
                   /\ UNCHANGED <<acc, next_validation>>
              ELSE /\ acc' = r.value
                   /\ next_validation' = next_validation + 1
                   /\ UNCHANGED <<exc, validate_pc>>
    /\ UNCHANGED <<data, extra_validations, returned>>
    /\ UNCHANGED <<given, config, dist, project_table, pc, i, cwd, cwd0, current_directory, log,
                   run, first, order>>

\* lines 30-31: reduce is over, return True
ValidateReturns ==
    /\ validate_pc = "extra"
    /\ next_validation > Len(extra_validations)
    /\ returned' = PyTrue
    /\ validate_pc' = "returned"
    /\ UNCHANGED <<data, extra_validations, acc, next_validation, calls, exc>>
    /\ UNCHANGED <<given, config, dist, project_table, pc, i, cwd, cwd0, current_directory, log,
                   run, first, order>>

ValidateNext ==
    \/ SchemaReturns
    \/ SchemaRaises
    \/ ExtraValidation
    \/ ValidateReturns

ValidateSpec == ValidateInit /\ [][ValidateNext]_vars

(***************************************************************************)
(* Properties                                                              *)
(***************************************************************************)
\* The project table of the document, and the value of one of its fields
Project == Item(given, "project")

\* The value of attribute a of the distribution's metadata
Meta(a) == dist.metadata[a]

HasSpecial(name) == \E k \in 1..Len(name) : SubSeq(name, k, k) \in SPECIALS

\* The persons of val that have only a name, and the ones that have an email
NameOnly(val) == SelectSeq(val, LAMBDA p : Has(p, "name") /\ ~Has(p, "email"))
WithEmail(val) == SelectSeq(val, LAMBDA p : Has(p, "email"))

Role(kind) == IF kind = "authors" THEN "author" ELSE "maintainer"

\* "name <email>" for a person with both, the email for one with only an email
PlainToken(p) ==
    IF Has(p, "name") THEN Item(p, "name").str \o " <" \o Item(p, "email").str \o ">"
    ELSE Item(p, "email").str

\* The same, with the name in double quotes when it holds a special
\* character, and the email alone when the name is empty
QuotedToken(p) ==
    IF Has(p, "name") /\ Item(p, "name").str # ""
    THEN (IF HasSpecial(Item(p, "name").str)
          THEN "\"" \o Item(p, "name").str \o "\""
          ELSE Item(p, "name").str) \o " <" \o Item(p, "email").str \o ">"
    ELSE Item(p, "email").str

NameField(val) == Join(", ", [k \in 1..Len(NameOnly(val)) |-> Item(NameOnly(val)[k], "name").str])
PlainEmailField(val) == Join(", ", [k \in 1..Len(WithEmail(val)) |-> PlainToken(WithEmail(val)[k])])
QuotedEmailField(val) == Join(", ", [k \in 1..Len(WithEmail(val)) |-> QuotedToken(WithEmail(val)[k])])

\* C1 (as stated): after apply, for an authors or maintainers list, <role> is
\* the ", "-join of the names of the persons with only a name and <role>_email
\* the ", "-join of the emails of the persons with only an email and of one
\* "name <email>" token per person with both, in list order.
C1_FieldsAreJoins ==
    \A kind \in {"authors", "maintainers"} :
        (pc = "done" /\ Has(Project, kind)) =>
            LET val == Item(Project, kind).list
            IN  /\ Meta(Role(kind)) = Str(NameField(val))
                /\ Meta(Role(kind) \o "_email") = Str(PlainEmailField(val))

\* C1 (amended): a field that receives at least one contribution is the
\* ", "-join of its contributions in list order and a field that receives
\* none is left as it was (None); the token of a person with both is
\* "name <email>" with the name in double quotes when it holds a special
\* character and the email alone when the name is empty; every person
\* contributes to exactly one of the two fields.
C1_PeopleFields ==
    \A kind \in {"authors", "maintainers"} :
        (pc = "done" /\ Has(Project, kind)) =>
            LET val == Item(Project, kind).list
            IN  /\ Meta(Role(kind)) =
                      IF NameOnly(val) = << >> THEN PyNone ELSE Str(NameField(val))
                /\ Meta(Role(kind) \o "_email") =
                      IF WithEmail(val) = << >> THEN PyNone ELSE Str(QuotedEmailField(val))
                /\ Len(NameOnly(val)) + Len(WithEmail(val)) = Len(val)

\* C1 witness: a mixed list, one person with only a name and one with both
C1_Witness ==
    /\ pc = "done" /\ Has(Project, "authors")
    /\ Item(Project, "authors") =
          List(<<Dict(<< <<"name", Str("A")>> >>),
                 Dict(<< <<"name", Str("J. Doe")>>, <<"email", Str("a@x.com")>> >>)>>)
    /\ Meta("author") = Str("A")
    /\ Meta("author_email") = Str("\"J. Doe\" <a@x.com>")

\* The project-URL entries whose key, lower-cased and stripped of "-" and
\* "_", is alias
Aliased(val, alias) ==
    SelectSeq(val.dict, LAMBDA kv : DropUnderscores(json_compatible_key(kv[1])) = alias)

\* C2: after apply, for a urls mapping, url is the value of every key that
\* normalises to "homepage", download_url the value of every key that
\* normalises to "downloadurl", and project_urls holds every entry of the
\* mapping under its original key.
C2_AliasesAndRawUrls ==
    (pc = "done" /\ Has(Project, "urls")) =>
        LET val == Item(Project, "urls")
        IN  /\ \A k \in 1..Len(Aliased(val, "homepage")) :
                   Meta("url") = Aliased(val, "homepage")[k][2]
            /\ \A k \in 1..Len(Aliased(val, "downloadurl")) :
                   Meta("download_url") = Aliased(val, "downloadurl")[k][2]
            /\ Meta("project_urls") = val

\* The part of C2 the code keeps: project_urls holds every entry unmodified.
RawUrlsKept ==
    (pc = "done" /\ Has(Project, "urls")) => Meta("project_urls") = Item(Project, "urls")

\* The "dynamic" section of the tool table of the document
GivenDynamic == Get(ToolTable(given), "dynamic", EMPTY)

\* C3: when "license" is in dynamic and the tool table has no
\* dynamic.license_files entry, license_files is exactly the four default
\* patterns once the pass over the project table has ended.
C3_DefaultLicenseFiles ==
    (/\ pc = "tool" /\ i = 1
     /\ "license" \in DynamicNames(Project)
     /\ ~Has(GivenDynamic, "license_files"))
    => Meta("license_files") = DEFAULT_LICENSE_FILES

\* The second half of C3: when "license" is not in dynamic, _dynamic_license
\* leaves the project table as it was.
NotDynamicNoChange ==
    [][(pc = "dynamic_license" /\ "license" \notin DynamicNames(project_table)
        /\ pc' = "project") => project_table' = project_table]_vars

\* C4 (as stated): for a readme that is a plain string, long_description is
\* that string and the content type is the fixed default.
C4_ReadmeStringVerbatim ==
    (pc = "done" /\ Has(Project, "readme") /\ IsStr(Item(Project, "readme"))) =>
        /\ Meta("long_description") = Item(Project, "readme")
        /\ Meta("long_description_content_type") = Str("text/x-rst")

\* C4 (amended): for a readme that is a plain string, the string is a path:
\* long_description is the text of the file of that name under root_dir (the
\* empty string when there is no such file), and the content type is
\* "text/x-rst".
C4_ReadmeStringIsPath ==
    (pc = "done" /\ Has(Project, "readme") /\ IsStr(Item(Project, "readme"))) =>
        LET path == Item(Project, "readme").str
        IN  /\ Meta("long_description") =
                   Str(IF path \in FileNames THEN FileText(path) ELSE "")
            /\ Meta("long_description_content_type") = Str("text/x-rst")

\* C4 witness: the readme names an existing file, whose text is the description
C4_Witness ==
    /\ pc = "done" /\ Has(Project, "readme")
    /\ Item(Project, "readme") = Str("README.rst")
    /\ Meta("long_description") = Str("Hello")
    /\ Meta("long_description_content_type") = Str("text/x-rst")

ReadmeLacksContentType ==
    /\ Has(Project, "readme")
    /\ IsDict(Item(Project, "readme"))
    /\ Has(Item(Project, "readme"), "text") \/ Has(Item(Project, "readme"), "file")
    /\ ~Has(Item(Project, "readme"), "content-type")

\* C5: for a mapping readme without a "content-type" key, with "text" or
\* with "file", apply does not get past the readme field, and the error it
\* ends with is a ConfigurationError.
C5_ConfigurationError ==
    ReadmeLacksContentType =>
        /\ pc \notin {"tool", "command_options", "chdir", "finalize_requires",
                      "finalize_license_files", "finally", "done"}
        /\ pc = "raised" => exc = "ConfigurationError"

\* The part of C5 the code keeps: the failure aborts apply.
MissingContentTypeAborts ==
    ReadmeLacksContentType =>
        pc \notin {"tool", "command_options", "chdir", "finalize_requires",
                   "finalize_license_files", "finally", "done"}

\* The (command, option, value) triples of tool.distutils in iteration
\* order, command and option normalised by json_compatible_key
RECURSIVE Triples(_, _)
Triples(cmds, k) ==
    IF k > Len(cmds) THEN << >>
    ELSE [j \in 1..Len(cmds[k][2].dict) |->
             <<json_compatible_key(cmds[k][1]),
               json_compatible_key(cmds[k][2].dict[j][1]),
               cmds[k][2].dict[j][2]>>]
         \o Triples(cmds, k + 1)

GivenTriples == Triples(Get(Get(given, "tool", EMPTY), "distutils", EMPTY).dict, 1)

CommandOptions == dist.attrs["command_options"]

\* The known-option sets, by normalised command name
GivenValidOptions ==
    _valid_command_options(Get(Get(Get(given, "tool", EMPTY), "setuptools", EMPTY),
                               "cmdclass", EMPTY))

OptionWarning(cmd, key) == "Command option " \o cmd \o "." \o key \o " is not defined"

Count(seq, x) == Cardinality({k \in 1..Len(seq) : seq[k] = x})

\* C6 (as stated): after the copy, command_options holds the value of every
\* triple under [normalised command][normalised option], known or not.
C6_EveryTripleRecorded ==
    pc = "chdir" =>
        LET ts == GivenTriples
        IN  \A k \in 1..Len(ts) :
                /\ Has(CommandOptions, ts[k][1])
                /\ Has(Item(CommandOptions, ts[k][1]), ts[k][2])
                /\ Item(Item(CommandOptions, ts[k][1]), ts[k][2]) = ts[k][3]

\* C6 (amended): after the copy, command_options holds under [normalised
\* command][normalised option] the value of the last triple that normalises
\* to that pair, known or not; the log holds one warning per triple whose
\* normalised option is not in the known-option set of its command and none
\* for a known one.  (The copy has no raising step: the state after it is
\* always the change of directory before the finalize steps.)
C6_LastTripleRecorded ==
    pc = "chdir" =>
        LET ts == GivenTriples
            valid_options == GivenValidOptions
        IN  \A k \in 1..Len(ts) :
                LET same == {j \in 1..Len(ts) : ts[j][1] = ts[k][1] /\ ts[j][2] = ts[k][2]}
                    last == CHOOSE j \in same : \A m \in same : m <= j
                    known == IF ts[k][1] \in DOMAIN valid_options
                             THEN valid_options[ts[k][1]] ELSE {}
                IN  /\ Has(CommandOptions, ts[k][1])
                    /\ Has(Item(CommandOptions, ts[k][1]), ts[k][2])
                    /\ Item(Item(CommandOptions, ts[k][1]), ts[k][2]) = ts[last][3]
                    /\ Count(log, OptionWarning(ts[k][1], ts[k][2])) =
                           IF ts[k][2] \in known THEN 0 ELSE Cardinality(same)

\* C6 witness: build.bogus_flag is unknown, recorded, and warned about once,
\* and build.build_lib is known and recorded without a warning
C6_Witness ==
    /\ pc = "done"
    /\ Get(Get(given, "tool", EMPTY), "distutils", EMPTY) =
          Dict(<< <<"build", Dict(<< <<"bogus_flag", Str("1")>>, <<"build-lib", Str("out")>> >>)>> >>)
    /\ Item(Item(CommandOptions, "build"), "bogus_flag") = Str("1")
    /\ Item(Item(CommandOptions, "build"), "build_lib") = Str("out")
    /\ Count(log, OptionWarning("build", "bogus_flag")) = 1
    /\ Count(log, OptionWarning("build", "build_lib")) = 0

\* C7: when apply has returned or raised, the working directory is the one
\* it was called in; it is another one only while the finalize hooks run and
\* until the finally clause has restored it, and then it is root_dir.
C7_WorkingDirectoryRestored ==
    /\ pc \in {"done", "raised"} => cwd = cwd0
    /\ pc \in {"finalize_requires", "finalize_license_files"} => cwd = root_dir
    /\ cwd # cwd0 =>
          /\ pc \in {"finalize_requires", "finalize_license_files", "finally"}
          /\ cwd = root_dir

\* C7 witness: the second finalize hook raised and the directory is restored
C7_Witness ==
    /\ pc = "raised" /\ exc = "DistutilsFileError"
    /\ cwd = cwd0 /\ cwd # root_dir

\* The value of attribute a as _set_config leaves it: on the metadata when
\* the metadata has the attribute, else on the distribution
Attr(a) ==
    IF a \in DOMAIN dist.metadata THEN dist.metadata[a]
    ELSE IF a \in DOMAIN dist.attrs THEN dist.attrs[a]
    ELSE PyNone

\* The attribute one project field assigns and the value it gives it, for the
\* fields that assign one attribute, as a sequence of zero or one
\* <<attribute, value>> pair
ProjectWrite(field, value) ==
    LET norm_key == json_compatible_key(field)
    IN  IF norm_key = "dependencies" THEN << <<"install_requires", value>> >>
        ELSE IF norm_key = "optional_dependencies" THEN << <<"extras_require", value>> >>
        ELSE IF norm_key \notin TranslatorKeys THEN << <<norm_key, value>> >>
        ELSE IF norm_key = "license" /\ IsStr(value) THEN << <<"license", value>> >>
        ELSE IF norm_key = "license" /\ Has(value, "file")
        THEN << <<"license_files", List(<<Item(value, "file")>>)>> >>
        ELSE IF norm_key = "license" /\ Has(value, "text")
        THEN << <<"license", Item(value, "text")>> >>
        ELSE << >>

ToolWrite(field, value) ==
    LET norm_key == json_compatible_key(field)
    IN  << <<IF norm_key = "script_files" THEN "scripts" ELSE norm_key, value>> >>

RECURSIVE Writes(_, _, _)
Writes(items, k, tool) ==
    IF k > Len(items) THEN << >>
    ELSE (IF tool THEN ToolWrite(items[k][1], items[k][2])
          ELSE ProjectWrite(items[k][1], items[k][2]))
         \o Writes(items, k + 1, tool)

\* The value of the last pair of ws that assigns a
LastWrite(ws, a) == ws[CHOOSE k \in 1..Len(ws) : ws[k][1] = a /\ \A m \in k + 1..Len(ws) : ws[m][1] # a][2]

\* C8: after the pass over the project table and then the pass over the tool
\* table, an attribute that a tool-table field assigns has the value of the
\* last tool-table field that assigns it, whatever the project table gave it;
\* an attribute that only project-table fields assign has the value of the
\* last of them in the order of the table.
C8_ToolTableWins ==
    pc = "command_options" =>
        LET pw == Writes(project_table.dict, 1, FALSE)
            tw == Writes(ToolTable(config).dict, 1, TRUE)
        IN  /\ \A k \in 1..Len(tw) : Attr(tw[k][1]) = LastWrite(tw, tw[k][1])
            /\ \A k \in 1..Len(pw) :
                   (\A m \in 1..Len(tw) : tw[m][1] # pw[k][1])
                   => Attr(pw[k][1]) = LastWrite(pw, pw[k][1])

\* The tool table is not touched before the pass over the project table ends.
ProjectPassFirst == [][pc = "tool" => pc' # "project"]_vars

\* C8 witness: description comes twice in the project table and once in the
\* tool table, and the tool table's value is the one kept
C8_Witness ==
    /\ pc = "done"
    /\ Get(Project, "description", PyNone) = Str("first")
    /\ Get(Project, "Description", PyNone) = Str("second")
    /\ Get(ToolTable(given), "description", PyNone) = Str("from tool")
    /\ Meta("description") = Str("from tool")

\* The documents of C9: name, version and an authors list in which every
\* person has both name and email, and an empty tool.setuptools table
EndToEndDocument ==
    /\ Has(Project, "authors") /\ Has(Project, "name") /\ Has(Project, "version")
    /\ \A k \in 1..Len(Item(Project, "authors").list) :
          Has(Item(Project, "authors").list[k], "name")
          /\ Has(Item(Project, "authors").list[k], "email")
    /\ ToolTable(given) = EMPTY

\* C9 (as stated): the returned model has the given name and version,
\* author "" and author_email the ", "-joined "name <email>" tokens.
C9_AuthorEmptyString ==
    (pc = "done" /\ EndToEndDocument) =>
        /\ Meta("name") = Item(Project, "name")
        /\ Meta("version") = Item(Project, "version")
        /\ Meta("author") = Str("")
        /\ Meta("author_email") = Str(PlainEmailField(Item(Project, "authors").list))

\* C9 (amended): the returned model has the given name and version; author is
\* not assigned and is still None; author_email is the ", "-join of one token
\* per person, "name <email>" with the name in double quotes when it holds a
\* special character and the email alone when the name is empty, and is not
\* assigned either when the list is empty.
C9_AuthorNotAssigned ==
    (pc = "done" /\ EndToEndDocument) =>
        /\ Meta("name") = Item(Project, "name")
        /\ Meta("version") = Item(Project, "version")
        /\ Meta("author") = PyNone
        /\ Meta("author_email") =
              IF Item(Project, "authors").list = << >> THEN PyNone
              ELSE Str(QuotedEmailField(Item(Project, "authors").list))

\* C9 witness: the document of the example, one author A / a@x.com
C9_Witness ==
    /\ pc = "done"
    /\ given = Config(BaseItems \o << <<"authors",
                   List(<<Dict(<< <<"name", Str("A")>>, <<"email", Str("a@x.com")>> >>)>>)>> >>,
                      EmptySetuptools)
    /\ Meta("name") = Str("pkg") /\ Meta("version") = Str("1.0")
    /\ Meta("author") = PyNone
    /\ Meta("author_email") = Str("A <a@x.com>")

\* C10: when the same document object has been applied to a first and then to
\* a second new Distribution, the second call gets as far as the first and
\* the two distributions agree on every attribute.
C10_SecondApplyAgrees ==
    /\ (run = 2 /\ pc = "done") => dist = first.dist
    /\ (run = 2 /\ pc = "raised") => exc \in {"DistutilsSetupError", "DistutilsFileError"}

\* C10 witness: script shortcuts with an entry-points table and a dynamic
\* license with both keys in the tool table; the first call changed the
\* document object
C10_Witness ==
    /\ run = 2 /\ pc = "done"
    /\ Has(Project, "scripts") /\ Has(Project, "entry-points")
    /\ "license" \in DynamicNames(Project)
    /\ Has(GivenDynamic, "license") /\ Has(GivenDynamic, "license_files")
    /\ config # given
    /\ dist = first.dist
    /\ dist # FreshDist

\* The lines of group name in the entry-points mapping of the processed
\* project table, as a set
UnifiedLines(name) ==
    LET eps == Get(project_table, "entry-points", EMPTY)
    IN  IF Has(eps, name) THEN {Item(eps, name).list[j] : j \in 1..Len(Item(eps, name).list)}
        ELSE {}

\* Every entry of the mapping group is a line "name = target" of the
\* unified group name.
GroupUnified(group, name) ==
    \A j \in 1..Len(group.dict) :
        Str(group.dict[j][1] \o " = " \o group.dict[j][2].str) \in UnifiedLines(name)

\* Every field of the given project table whose normalised key is norm is
\* unified into group name.
ShortcutsUnified(norm, name) ==
    \A j \in 1..Len(Project.dict) :
        json_compatible_key(Project.dict[j][1]) = norm
        => GroupUnified(Project.dict[j][2], name)

\* The explicit entry-points tables of the given project table
ExplicitTables ==
    {Item(Project, k) : k \in {"entry-points", "entry_points"} \cap KeySet(Project)}

\* C11: after the unification, every entry of scripts is a line of group
\* console_scripts, every entry of gui-scripts a line of gui_scripts, every
\* entry of every group of an explicit entry-points table a line of its
\* group, and the table the main pass iterates has no scripts or
\* gui-scripts field.
C11_EntryPointsUnified ==
    pc = "dynamic_license" =>
        /\ ShortcutsUnified("scripts", "console_scripts")
        /\ ShortcutsUnified("gui_scripts", "gui_scripts")
        /\ \A t \in ExplicitTables :
               \A j \in 1..Len(t.dict) : GroupUnified(t.dict[j][2], t.dict[j][1])
        /\ \A k \in KeySet(project_table) :
               json_compatible_key(k) \notin {"scripts", "gui_scripts"}

\* The part of C11 the code keeps: the shortcut entries are unified, and the
\* only shortcut field left in the table is an empty one.
ShortcutEntriesUnified ==
    pc = "dynamic_license" =>
        /\ ShortcutsUnified("scripts", "console_scripts")
        /\ ShortcutsUnified("gui_scripts", "gui_scripts")
        /\ \A k \in KeySet(project_table) :
               json_compatible_key(k) \in {"scripts", "gui_scripts"}
               => Item(project_table, k) = EMPTY

\* C12: when an apply call has ended, by return or by exception, the
\* caller's document has exactly the keys and values it had before the
\* call: the project table with its nested entry-points table, and the tool
\* table with its nested dynamic table.
C12_DocumentUnchanged == pc \in {"done", "raised"} => config = given

\* The part of C12 the code keeps: the top level of the project table is
\* copied, so the caller's project table keeps its keys, and every value but
\* the nested entry-points table; the tool table keeps every value but the
\* nested dynamic table, which at most gains a license_files key.
TopLevelUnchanged ==
    LET project == Item(config, "project")
    IN  /\ Keys(project) = Keys(Project)
        /\ \A k \in KeySet(project) \ {"entry-points", "entry_points"} :
               Item(project, k) = Item(Project, k)
        /\ Keys(Item(config, "tool")) = Keys(Item(given, "tool"))
        /\ IsDict(ToolTable(given)) =>
               /\ Keys(ToolTable(config)) = Keys(ToolTable(given))
               /\ \A k \in KeySet(ToolTable(given)) \ {"dynamic"} :
                      Item(ToolTable(config), k) = Item(ToolTable(given), k)
               /\ Has(ToolTable(given), "dynamic") =>
                      Without(Item(ToolTable(config), "dynamic"), "license_files")
                          = Without(GivenDynamic, "license_files")

\* key is one of the spellings of the two aliases of _project_urls
IsAlias(key) == DropUnderscores(json_compatible_key(key)) \in {"homepage", "downloadurl"}

\* C15: after apply on a document with a urls mapping and an empty tool
\* table, no attribute named after a label that is not an alias exists on
\* the distribution, and when no label is an alias no metadata field other
\* than name, version and project_urls has been given a value.
C15_OnlyProjectUrls ==
    (pc = "done" /\ Has(Project, "urls") /\ ToolTable(given) = EMPTY) =>
        LET val == Item(Project, "urls")
        IN  /\ \A k \in KeySet(val) : ~IsAlias(k) => k \notin DOMAIN dist.attrs
            /\ (\A k \in KeySet(val) : ~IsAlias(k)) =>
                   \A a \in DOMAIN dist.metadata \ {"name", "version", "project_urls"} :
                       dist.metadata[a] = PyNone

\* tool.setuptools.cmdclass of the given document
GivenCmdclass == Get(Get(Get(given, "tool", EMPTY), "setuptools", EMPTY), "cmdclass", EMPTY)

\* The user_options lists of the command classes obtained for a command
\* name: of the registered plugins of that name that load, and of the local
\* override of that name
ClassesFor(name) ==
    {CommandEntryPoints[j].user_options :
        j \in {m \in 1..Len(CommandEntryPoints) :
                  CommandEntryPoints[m].name = name /\ ~CommandEntryPoints[m].fails}}
    \cup {GivenCmdclass.dict[j][2].user_options :
            j \in {m \in 1..Len(GivenCmdclass.dict) : GivenCmdclass.dict[m][1] = name}}

\* The union of the normalised option names of those classes; the baseline
\* is the set of the name "global"
KnownOptions(name) ==
    (IF name = "global" THEN _normalise_cmd_options(GlobalOptions) ELSE {})
    \cup UNION {_normalise_cmd_options(user_options) : user_options \in ClassesFor(name)}

LoadWarning(ep) == "ImportError while trying to load entry-point " \o ep.name \o ": "

\* C13: the index of known options has the baseline under "global" and one
\* entry per command name a class was obtained for, the union of the
\* normalised option names of all the classes obtained for that name, plugin
\* and local override together; a plugin whose load raises gives one
\* warning and no options; the copy that builds the index ends without an
\* exception, and it warns about exactly the options that are not in the set
\* of their command.
C13_KnownOptionSets ==
    pc = "chdir" =>
        LET valid_options == GivenValidOptions
            ts == GivenTriples
            names == {"global"}
                     \cup {CommandEntryPoints[j].name :
                             j \in {m \in 1..Len(CommandEntryPoints) :
                                       ~CommandEntryPoints[m].fails}}
                     \cup KeySet(GivenCmdclass)
        IN  /\ DOMAIN valid_options = names
            /\ \A n \in names : valid_options[n] = KnownOptions(n)
            /\ exc = ""
            /\ \A j \in 1..Len(CommandEntryPoints) :
                   Count(log, LoadWarning(CommandEntryPoints[j])) =
                       IF CommandEntryPoints[j].fails THEN 1 ELSE 0
            /\ \A k \in 1..Len(ts) :
                   (Count(log, OptionWarning(ts[k][1], ts[k][2])) > 0)
                   <=> ts[k][2] \notin KnownOptions(ts[k][1])

\* C13 witness: the plugin sdist and the local override sdist both give
\* options, the plugin broken fails to load, and the call returns
C13_Witness ==
    /\ pc = "done"
    /\ Has(GivenCmdclass, "sdist")
    /\ KnownOptions("sdist") = {"formats", "owner"}
    /\ KnownOptions("broken") = {}
    /\ \E k \in 1..Len(GivenTriples) : GivenTriples[k][1] = "sdist" /\ GivenTriples[k][2] = "owner"
    /\ \E k \in 1..Len(GivenTriples) : GivenTriples[k][1] = "broken"
    /\ Count(log, OptionWarning("sdist", "owner")) = 0
    /\ Count(log, OptionWarning("sdist", "formats")) = 0
    /\ Count(log, OptionWarning("broken", "level")) = 1
    /\ Count(log, "ImportError while trying to load entry-point broken: ") = 1

\* The document the call number m of validate gets: the schema validation
\* and the first extra validation get data, a later one what the one before
\* it returned.
RECURSIVE Handed(_)
Handed(m) ==
    IF m <= 2 THEN data
    ELSE CallValidation(extra_validations[m - 2], Handed(m - 1)).value

\* C14: the calls validate makes are the schema validation and then the
\* extra validations in the order of their sequence, the first with the
\* document validate was given and each later one with the document the one
\* before it returned; when the schema validation raises no extra validation
\* is called; no call follows an extra validation that raised; and validate
\* returns True only after the schema validation and every extra validation
\* were called and none raised.
C14_ValidationOrder ==
    /\ Len(calls) <= 1 + Len(extra_validations)
    /\ \A m \in 1..Len(calls) :
          /\ calls[m][1] = IF m = 1 THEN "_validate" ELSE extra_validations[m - 1]
          /\ calls[m][2] = Handed(m)
          /\ (m > 1 /\ m < Len(calls)) => ~CallValidation(calls[m][1], calls[m][2]).raises
    /\ (validate_pc = "raised" /\ exc = "JsonSchemaValueException") => Len(calls) = 1
    /\ validate_pc = "raised" => returned = PyNone
    /\ returned # PyNone =>
          /\ returned = PyTrue
          /\ validate_pc = "returned"
          /\ exc = ""
          /\ Len(calls) = 1 + Len(extra_validations)
          /\ \A m \in 2..Len(calls) : ~CallValidation(calls[m][1], calls[m][2]).raises

\* Once validate has raised or returned, nothing more is called.
ValidateEnds ==
    [][(validate_pc \in {"raised", "returned"}) => UNCHANGED validate_vars]_vars

\* C14 witness: validate returned True after two extra validations, the
\* second of which was called with the document the first returned
C14_Witness ==
    /\ validate_pc = "returned"
    /\ returned = PyTrue
    /\ extra_validations = <<"add_x", "add_y">>
    /\ data = EMPTY
    /\ calls = << <<"_validate", EMPTY>>, <<"add_x", EMPTY>>,
                  <<"add_y", Dict(<< <<"x", Str("1")>> >>)>> >>
    /\ acc = Dict(<< <<"x", Str("1")>>, <<"y", Str("1")>> >>)

====
